---------------------------- MODULE Spec2Model ----------------------------
(***************************************************************************)
(* GRN Parser Pro+ (reliance_grn_gdrive.py): the RelianceGRNProcessor      *)
(* methods and the Streamlit script that drives them.                      *)
(*                                                                         *)
(* Text is a sequence of one-character strings.  The regular expressions   *)
(* of extract_grn_data are written as data (a sequence of alternatives,    *)
(* each a sequence of elements) and run by a matcher with                  *)
(* the priorities of Python's re module: leftmost start, alternatives in   *)
(* order, greedy quantifiers longest first, lazy quantifiers shortest      *)
(* first.                                                                  *)
(***************************************************************************)
EXTENDS Integers, Sequences, FiniteSets, TLC

VARIABLES
    pdf_bytes,           \* the bytes of the document in hand
    text,                \* local `text` of the loop body / argument of extract_grn_data
    source_filename,     \* argument of extract_grn_data
    metadata,            \* first component returned by extract_grn_data
    items,               \* second component returned by extract_grn_data
    raised,              \* TRUE when the last call of extract_grn_data raised
    pc,                  \* position of the script / of the call
    workflow_mode,       \* st.session_state.workflow_mode
    df_result,           \* st.session_state.df_result
    file_count,          \* st.session_state.file_count
    processing_complete, \* st.session_state.processing_complete
    drive_config,        \* st.session_state.drive_config
    oauth_token,         \* 'oauth_token' in st.session_state
    uploaded_files,      \* value of the st.file_uploader widget
    drive_files,         \* listing used by the running script
    drive_authenticated, \* result of authenticate_from_secrets in the running script
    drive_service,       \* processor.drive_service in the running script
    listed_on,           \* drive_service at the running script's call of list_drive_files
    all_data,            \* rows accumulated by the running batch loop
    processed_count,     \* files the running batch loop has finished
    total_files,         \* denominator of the progress value
    progress,            \* last value given to progress_bar.progress: <<num, den>>
    calls                \* per visited document: <<file, sequence of processor calls>>

vars == <<pdf_bytes, text, source_filename, metadata, items, raised, pc, workflow_mode,
          df_result, file_count, processing_complete, drive_config,
          oauth_token, uploaded_files, drive_files, drive_authenticated,
          drive_service, listed_on, all_data, processed_count, total_files,
          progress, calls>>

-----------------------------------------------------------------------------
(* Characters and character classes                                         *)

\* Python's None.  No text equals it: every element of a text is a
\* one-character string.
None == <<"None">>

Digits == {"0","1","2","3","4","5","6","7","8","9"}

UpperCase == <<"A","B","C","D","E","F","G","H","I","J","K","L","M",
               "N","O","P","Q","R","S","T","U","V","W","X","Y","Z">>

LowerCase == <<"a","b","c","d","e","f","g","h","i","j","k","l","m",
               "n","o","p","q","r","s","t","u","v","w","x","y","z">>

Letters == {UpperCase[n] : n \in DOMAIN UpperCase}
              \cup {LowerCase[n] : n \in DOMAIN LowerCase}

\* \s of the re module on the characters used here
WhiteSpace == {" ", "\n", "\r", "\t"}

\* \w
WordChars == Letters \cup Digits \cup {"_"}

\* str.lower() on the letters
LowerOf == [c \in {UpperCase[n] : n \in DOMAIN UpperCase} |->
               LowerCase[CHOOSE n \in DOMAIN UpperCase : UpperCase[n] = c]]

\* re.IGNORECASE folds the case of a character
Fold(c) == IF c \in DOMAIN LowerOf THEN LowerOf[c] ELSE c

\* [\w\s\.\-%#]
DescChars == WordChars \cup WhiteSpace \cup {".", "-", "%", "#"}

\* [\d\.]
MrpChars == Digits \cup {"."}

\* membership of a character in a class of the patterns
InClass(c, cls) ==
    CASE cls = "d"     -> c \in Digits          \* \d
      [] cls = "w"     -> c \in WordChars       \* \w
      [] cls = "s"     -> c \in WhiteSpace      \* \s
      [] cls = "S"     -> c \notin WhiteSpace   \* \S
      [] cls = "dot"   -> c # "\n"              \* .
      [] cls = "notnl" -> c # "\n"              \* [^\n]
      [] cls = "desc"  -> c \in DescChars
      [] cls = "mrp"   -> c \in MrpChars
      [] OTHER         -> FALSE

-----------------------------------------------------------------------------
(* Pattern elements                                                         *)

\* every element carries the groups that open right before it and close
\* right after it
Lit(s)            == [t |-> "lit", s |-> s, opens |-> {}, closes |-> {}]
\* a class repeated min..max times (max = -1: no upper limit)
Rep(cls, mn, mx)  == [t |-> "rep", cls |-> cls, min |-> mn, max |-> mx,
                      lazy |-> FALSE, opens |-> {}, closes |-> {}]
Lazy(cls, mn, mx) == [t |-> "rep", cls |-> cls, min |-> mn, max |-> mx,
                      lazy |-> TRUE, opens |-> {}, closes |-> {}]
Star(cls)         == Rep(cls, 0, -1)
Plus(cls)         == Rep(cls, 1, -1)
\* (?<!X)
NotBehind(cls)    == [t |-> "nlb", cls |-> cls, opens |-> {}, closes |-> {}]
\* \b
WordBoundary      == [t |-> "wb", opens |-> {}, closes |-> {}]
\* (e): group g around the one element e
Grp(g, e)         == [e EXCEPT !.opens = {g}, !.closes = {g}]
\* (e ... and ... e): group g opens before e, closes after e
GrpOpen(g, e)     == [e EXCEPT !.opens = {g}]
GrpClose(g, e)    == [e EXCEPT !.closes = {g}]

\* the largest group number of the patterns (the item pattern has nine)
MaxGroup == 9

NoSpan == <<0, 0>>

NoMatch == [ok |-> FALSE, start |-> 0, end |-> 0, caps |-> <<>>]

-----------------------------------------------------------------------------
(* The matcher                                                              *)

\* how many characters from position i on are in cls, at most cap of them
\* (cap = -1: no limit)
RunLen(txt, i, cls, cap) ==
    (CHOOSE j \in i..(Len(txt) + 1) :
        /\ \/ j = Len(txt) + 1
           \/ cap >= 0 /\ j = i + cap
           \/ ~InClass(txt[j], cls)
        /\ \A j2 \in i..(j - 1) :
              /\ ~(cap >= 0 /\ j2 = i + cap)
              /\ InClass(txt[j2], cls)) - i

LitAt(txt, i, s, ic) ==
    /\ i + Len(s) - 1 <= Len(txt)
    /\ \A j \in 1..Len(s) :
          \/ txt[i + j - 1] = s[j]
          \/ ic /\ Fold(txt[i + j - 1]) = Fold(s[j])

IsWordAt(txt, i) == i >= 1 /\ i <= Len(txt) /\ txt[i] \in WordChars

\* the least and the greatest number of a non-empty set of numbers
Min(S) == CHOOSE x \in S : \A y \in S : x <= y
Max(S) == CHOOSE x \in S : \A y \in S : y <= x

\* the positions at which element e can end when it starts at position i;
\* none when it does not match there
EndsOf(txt, e, ic, i) ==
    CASE e.t = "lit" ->
           IF LitAt(txt, i, e.s, ic) THEN {i + Len(e.s)} ELSE {}
      [] e.t = "nlb" ->
           IF i > 1 /\ InClass(txt[i - 1], e.cls) THEN {} ELSE {i}
      [] e.t = "wb" ->
           IF IsWordAt(txt, i - 1) # IsWordAt(txt, i) THEN {i} ELSE {}
      [] e.t = "rep" ->
           {i + c : c \in e.min..RunLen(txt, i, e.cls, e.max)}

RECURSIVE Reach(_, _, _, _, _, _)
\* the positions at which elements k1..k2 of els can end when they start at
\* a position of P (the range is halved to keep the evaluation shallow)
Reach(txt, els, ic, k1, k2, P) ==
    IF k1 > k2 \/ P = {} THEN P
    ELSE IF k1 = k2 THEN UNION {EndsOf(txt, els[k1], ic, i) : i \in P}
    ELSE UNION {Reach(txt, els, ic, (k1 + k2) \div 2 + 1, k2, Q) :
                   Q \in {Reach(txt, els, ic, k1, (k1 + k2) \div 2, P)}}

\* elements k.. of els match from position i on
CanFinish(txt, els, ic, k, i) == Reach(txt, els, ic, k, Len(els), {i}) # {}

\* the first of the ends `good` of element e in the order the engine tries
\* them: a greedy repetition the longest first, a lazy one the shortest first
FirstTried(e, good) ==
    IF e.t = "rep" /\ ~e.lazy THEN Max(good) ELSE Min(good)

\* where the engine lets element k end when it starts at i: the first of
\* its ends, in the order the engine tries them, from which the rest of
\* els matches
Pick(txt, els, ic, k, i) ==
    FirstTried(els[k], {j : j \in {j \in EndsOf(txt, els[k], ic, i) :
                                      CanFinish(txt, els, ic, k + 1, j)}})

RECURSIVE Path(_, _, _, _, _, _)
\* the ends `left` of the elements before k1, followed by those of k1..k2
PathOn(txt, els, ic, k1, k2, left) ==
    left \o Path(txt, els, ic, k1, k2, left[Len(left)])

\* where elements k1..k2 end in the match of els, element k1 starting at i
Path(txt, els, ic, k1, k2, i) ==
    IF k1 > k2 THEN <<>>
    ELSE IF k1 = k2 THEN <<Pick(txt, els, ic, k1, i)>>
    ELSE PathOn(txt, els, ic, (k1 + k2) \div 2 + 1, k2,
                Path(txt, els, ic, k1, (k1 + k2) \div 2, i))

\* the spans of the groups of a match of els that starts at s
Caps(els, s, ends) ==
    [g \in 1..MaxGroup |->
        IF \E k \in DOMAIN els : g \in els[k].opens
        THEN LET ko == CHOOSE k \in DOMAIN els : g \in els[k].opens
                 kc == CHOOSE k \in DOMAIN els : g \in els[k].closes
             IN  <<IF ko = 1 THEN s ELSE ends[ko - 1], ends[kc]>>
        ELSE NoSpan]

\* the match object of els matched from s on, its elements ending at `ends`
Match(els, s, ends) ==
    [ok    |-> TRUE,
     start |-> s,
     end   |-> IF ends = <<>> THEN s ELSE ends[Len(ends)],
     caps  |-> Caps(els, s, ends)]

RECURSIVE MatchAlts(_, _, _, _, _)
\* the alternatives a.. of a pattern, in order, at start position s
MatchAlts(txt, alts, ic, s, a) ==
    IF a > Len(alts) THEN NoMatch
    ELSE IF CanFinish(txt, alts[a], ic, 1, s)
         THEN Match(alts[a], s, Path(txt, alts[a], ic, 1, Len(alts[a]), s))
         ELSE MatchAlts(txt, alts, ic, s, a + 1)

MatchAt(txt, alts, ic, s) == MatchAlts(txt, alts, ic, s, 1)

\* the match at the least of the start positions `starts`
MatchAtFirst(txt, alts, ic, starts) ==
    IF starts = {} THEN NoMatch ELSE MatchAt(txt, alts, ic, Min(starts))

\* re.search / one step of finditer: the match at the least start position
\* that is s or later
SearchFrom(txt, alts, ic, s) ==
    MatchAtFirst(txt, alts, ic,
                 {t : t \in {t \in s..(Len(txt) + 1) :
                                \E a \in DOMAIN alts :
                                    /\ EndsOf(txt, alts[a][1], ic, t) # {}
                                    /\ CanFinish(txt, alts[a], ic, 1, t)}})

\* re.search(pattern, text, re.IGNORECASE)
re_search(alts, txt, ic) == SearchFrom(txt, alts, ic, 1)

\* match.group(g)
group(txt, m, g) ==
    IF m.caps[g] = NoSpan THEN None
    ELSE SubSeq(txt, m.caps[g][1], m.caps[g][2] - 1)

RECURSIVE FindIterFrom(_, _, _)
\* the match r, if it is one, and the matches after it
FindIterOn(txt, alts, r) ==
    IF ~r.ok THEN <<>>
    ELSE <<r>> \o FindIterFrom(txt, alts,
                               IF r.end > r.start THEN r.end ELSE r.end + 1)

\* pattern.finditer(text): the non-overlapping matches, left to right
FindIterFrom(txt, alts, s) ==
    FindIterOn(txt, alts, SearchFrom(txt, alts, FALSE, s))

finditer(alts, txt) == FindIterFrom(txt, alts, 1)


-----------------------------------------------------------------------------
(* str.strip() and re.sub(r'\s+', ' ', s)                                   *)

RECURSIVE lstrip(_)
lstrip(s) ==
    IF s # <<>> /\ Head(s) \in WhiteSpace THEN lstrip(Tail(s)) ELSE s

RECURSIVE rstrip(_)
rstrip(s) ==
    IF s # <<>> /\ s[Len(s)] \in WhiteSpace
    THEN rstrip(SubSeq(s, 1, Len(s) - 1)) ELSE s

\* str.strip()
strip(s) == rstrip(lstrip(s))

RECURSIVE collapse_ws(_)
\* re.sub(r'\s+', ' ', s): every maximal whitespace run becomes one space
collapse_ws(s) ==
    IF s = <<>> THEN <<>>
    ELSE IF Head(s) \in WhiteSpace
         THEN <<" ">> \o collapse_ws(lstrip(s))
         ELSE <<Head(s)>> \o collapse_ws(Tail(s))

\* truth value of a str-or-None
Truthy(v) == v # None /\ v # <<>>

-----------------------------------------------------------------------------
(* extract_grn_data                                                         *)

\* DD.MM.YYYY: \d{2}\.\d{2}\.\d{4}
DatePattern(g) ==
    <<GrpOpen(g, Rep("d", 2, 2)), Lit(<<".">>), Rep("d", 2, 2), Lit(<<".">>),
      GrpClose(g, Rep("d", 4, 4))>>

\* the seven keys of `patterns`, in insertion order
PatternKeys == <<"GRN No", "GRN Date", "Vendor Invoice No",
                 "Consignee Location", "PO No", "PO Date", "Truck No">>

MetaKeys == {PatternKeys[n] : n \in DOMAIN PatternKeys}
               \cup {"Challan No", "Source File"}

ItemKeys == {"S No", "Article", "Item Description", "EAN Number", "UoM",
             "Challan Qty", "Received Qty", "Accepted Qty", "MRP"}

\* a variant of consignee_pattern without the newline after the group
consignee_pattern_open ==
    << <<Lit(<<"C","o","n","s","i","g","n","e","e">>), Star("s"), Lit(<<":">>), Star("s"),
         Grp(1, Plus("notnl"))>> >>

\* Consignee\s*:\s*([^\n]+)\n
consignee_pattern ==
    << <<Lit(<<"C","o","n","s","i","g","n","e","e">>), Star("s"), Lit(<<":">>), Star("s"),
         Grp(1, Plus("notnl")), Lit(<<"\n">>)>> >>

\* the dict `patterns`: key -> alternatives of the regular expression
patterns(key) ==
    CASE key = "GRN No" ->
           \* GOODS RECEIPT NOTE No\.\s*:\s*(\S+)
           << <<Lit(
                <<"G","O","O","D","S"," ","R","E","C","E","I","P","T"," ","N","O","T","E"," ","N","o",".">>), Star("s"), Lit(<<":">>), Star("s"),
                Grp(1, Plus("S"))>> >>
      [] key = "GRN Date" ->
           \* Date:\s*(\d{2}\.\d{2}\.\d{4})
           << <<Lit(<<"D","a","t","e",":">>), Star("s")>> \o DatePattern(1) >>
      [] key = "Vendor Invoice No" ->
           \* Vendor invoice no\s*:\s*(\S+)
           << <<Lit(
                <<"V","e","n","d","o","r"," ","i","n","v","o","i","c","e"," ","n","o">>), Star("s"), Lit(<<":">>), Star("s"),
                Grp(1, Plus("S"))>> >>
      [] key = "Consignee Location" ->
           consignee_pattern
      [] key = "PO No" ->
           \* PO Number\s*:\s*(\S+)
           << <<Lit(<<"P","O"," ","N","u","m","b","e","r">>), Star("s"), Lit(<<":">>), Star("s"),
                Grp(1, Plus("S"))>> >>
      [] key = "PO Date" ->
           \* PO Number.*?Date\s*:\s*(date)|(?<!\S)Date\s*:\s*(date)
           << <<Lit(<<"P","O"," ","N","u","m","b","e","r">>), Lazy("dot", 0, -1), Lit(<<"D","a","t","e">>), Star("s"),
                Lit(<<":">>), Star("s")>> \o DatePattern(1),
              <<NotBehind("S"), Lit(<<"D","a","t","e">>), Star("s"), Lit(<<":">>),
                Star("s")>> \o DatePattern(2) >>
      [] key = "Truck No" ->
           \* Truck/ Lorry/ Carrier No:\s*(\S+)
           << <<Lit(
                <<"T","r","u","c","k","/"," ","L","o","r","r","y","/"," ","C","a","r","r","i","e","r"," ","N","o",":">>), Star("s"), Grp(1, Plus("S"))>> >>

\* S No\s+Article
table_marker == << <<Lit(<<"S"," ","N","o">>), Plus("s"), Lit(<<"A","r","t","i","c","l","e">>)>> >>

\* the length of an EAN number: (\d{13})
EanLen == 13

\* a variant of item_pattern whose description group is greedy: it runs on
\* to the last EAN number of the table
item_pattern_greedy ==
    << <<Grp(1, Plus("d")), Plus("s"),
         Grp(2, Plus("d")), Plus("s"),
         Grp(3, Rep("desc", 1, -1)), Plus("s"),
         Grp(4, Rep("d", EanLen, EanLen)), Plus("s"),
         Grp(5, Plus("w")), Plus("s"),
         Grp(6, Plus("d")), Plus("s"),
         Grp(7, Plus("d")), Plus("s"),
         Grp(8, Plus("d")), Plus("s"),
         Grp(9, Plus("mrp")), WordBoundary>> >>

\* a variant of item_pattern that asks for no whitespace before the EAN
\* number
item_pattern_ean_glued ==
    << <<Grp(1, Plus("d")), Plus("s"),
         Grp(2, Plus("d")), Plus("s"),
         Grp(3, Lazy("desc", 1, -1)), Star("s"),
         Grp(4, Rep("d", EanLen, EanLen)), Plus("s"),
         Grp(5, Plus("w")), Plus("s"),
         Grp(6, Plus("d")), Plus("s"),
         Grp(7, Plus("d")), Plus("s"),
         Grp(8, Plus("d")), Plus("s"),
         Grp(9, Plus("mrp")), WordBoundary>> >>

\* (\d+)\s+(\d+)\s+([\w\s\.\-%#]+?)\s+(\d{13})\s+(\w+)\s+(\d+)\s+(\d+)\s+(\d+)\s+([\d\.]+)\b
item_pattern ==
    << <<Grp(1, Plus("d")), Plus("s"),
         Grp(2, Plus("d")), Plus("s"),
         Grp(3, Lazy("desc", 1, -1)), Plus("s"),
         Grp(4, Rep("d", EanLen, EanLen)), Plus("s"),
         Grp(5, Plus("w")), Plus("s"),
         Grp(6, Plus("d")), Plus("s"),
         Grp(7, Plus("d")), Plus("s"),
         Grp(8, Plus("d")), Plus("s"),
         Grp(9, Plus("mrp")), WordBoundary>> >>

\* the number of groups of a pattern (pattern.groups)
NumGroups(alts) ==
    Cardinality({g \in 1..MaxGroup :
                   \E a \in DOMAIN alts : \E k \in DOMAIN alts[a] :
                       g \in alts[a][k].opens})

\* match.group(2) of a pattern that has one group raises IndexError
IndexError == <<"IndexError">>

\* match.group(1) or match.group(2)
group_or(txt, m, alts) ==
    IF Truthy(group(txt, m, 1)) THEN group(txt, m, 1)
    ELSE IF NumGroups(alts) >= 2 THEN group(txt, m, 2)
    ELSE IndexError

\* `if match: metadata[key] = match.group(1) or match.group(2)`: the value
\* the key has afterwards when it was `unset` before
value_after(txt, m, alts, unset) ==
    IF m.ok THEN group_or(txt, m, alts) ELSE unset

\* a variant of header_value that leaves "" where the pattern does not match
header_value_blank(key, txt) ==
    value_after(txt, re_search(patterns(key), txt, TRUE), patterns(key), <<>>)

\* one round of `for key, pattern in patterns.items()`: the value the key
\* has afterwards (None when the pattern does not match)
header_value(key, txt) ==
    value_after(txt, re_search(patterns(key), txt, TRUE), patterns(key), None)

\* a variant of challan_no that never copies the invoice number
challan_no_unset(vendor_invoice_no) == None

\* metadata["Challan No"] after `if metadata["Vendor Invoice No"]:`
challan_no(vendor_invoice_no) ==
    IF Truthy(vendor_invoice_no) THEN vendor_invoice_no ELSE None

\* the dict `metadata` when extract_grn_data returns
extract_metadata(txt, name) ==
    [key \in MetaKeys |->
        CASE key = "Source File" -> name
          [] key = "Challan No"  ->
               challan_no(header_value("Vendor Invoice No", txt))
          [] OTHER               -> header_value(key, txt)]

\* the dict `metadata` before the loop over `patterns`
metadata_init(name) ==
    [key \in MetaKeys |-> IF key = "Source File" THEN name ELSE None]

\* a variant of set_if_match in which a match of either date pattern fills
\* the date field that is still unset, GRN Date before PO Date
set_if_match_first_unset(md, key, txt) ==
    [md EXCEPT ![IF key \in {"GRN Date", "PO Date"} /\ md["GRN Date"] = None
                 THEN "GRN Date"
                 ELSE IF key = "GRN Date" THEN "PO Date" ELSE key] =
        value_after(txt, re_search(patterns(key), txt, TRUE), patterns(key),
                    @)]

\* one round of `for key, pattern in patterns.items()` on the dict md
set_if_match(md, key, txt) ==
    [md EXCEPT ![key] =
        value_after(txt, re_search(patterns(key), txt, TRUE), patterns(key),
                    @)]

RECURSIVE metadata_loop(_, _, _)
\* the loop over the patterns, taken in the order `keys`
metadata_loop(keys, txt, md) ==
    IF keys = <<>> THEN md
    ELSE metadata_loop(Tail(keys), txt, set_if_match(md, Head(keys), txt))

\* `if metadata["Vendor Invoice No"]: metadata["Challan No"] = ...`
with_challan(md) ==
    [md EXCEPT !["Challan No"] = challan_no(md["Vendor Invoice No"])]

\* the dict `metadata` when the patterns are taken in the order `keys`
metadata_in_order(keys, txt, name) ==
    with_challan(metadata_loop(keys, txt, metadata_init(name)))

\* a variant of table_text that does not cut the text at the marker
table_text_whole(txt) ==
    IF re_search(table_marker, txt, TRUE).ok THEN txt ELSE None

\* text[table_start.start():], or None when table_start is no match
text_from(txt, table_start) ==
    IF table_start.ok THEN SubSeq(txt, table_start.start, Len(txt)) ELSE None

\* table_text after `if table_start:`, or None when the marker is not found
table_text(txt) == text_from(txt, re_search(table_marker, txt, TRUE))

\* a variant of item_record that strips the description and leaves its
\* inner whitespace as it is
item_record_stripped(txt, m) ==
    [key \in ItemKeys |->
        CASE key = "S No"             -> group(txt, m, 1)
          [] key = "Article"          -> group(txt, m, 2)
          [] key = "Item Description" -> strip(group(txt, m, 3))
          [] key = "EAN Number"       -> group(txt, m, 4)
          [] key = "UoM"              -> group(txt, m, 5)
          [] key = "Challan Qty"      -> group(txt, m, 6)
          [] key = "Received Qty"     -> group(txt, m, 7)
          [] key = "Accepted Qty"     -> group(txt, m, 8)
          [] key = "MRP"              -> group(txt, m, 9)]

\* the dict appended to `items` for one match of item_pattern
item_record(txt, m) ==
    [key \in ItemKeys |->
        CASE key = "S No"             -> group(txt, m, 1)
          [] key = "Article"          -> group(txt, m, 2)
          [] key = "Item Description" -> collapse_ws(strip(group(txt, m, 3)))
          [] key = "EAN Number"       -> group(txt, m, 4)
          [] key = "UoM"              -> group(txt, m, 5)
          [] key = "Challan Qty"      -> group(txt, m, 6)
          [] key = "Received Qty"     -> group(txt, m, 7)
          [] key = "Accepted Qty"     -> group(txt, m, 8)
          [] key = "MRP"              -> group(txt, m, 9)]

\* the dicts appended to `items` for the matches ms, in order
item_records(tt, ms) == [n \in 1..Len(ms) |-> item_record(tt, ms[n])]

\* `for match in item_pattern.finditer(table_text)`, when there is a table
items_of(tt) ==
    IF tt = None THEN <<>> ELSE item_records(tt, finditer(item_pattern, tt))

\* the list `items` when extract_grn_data returns
extract_items(txt) == items_of(table_text(txt))

\* `return metadata, items`, unless filling the metadata raised
outcome(md, its) ==
    IF \E key \in MetaKeys : md[key] = IndexError
    THEN [raised |-> TRUE, metadata |-> None, items |-> None]
    ELSE [raised |-> FALSE, metadata |-> md, items |-> its]

\* extract_grn_data(text, source_filename): (metadata, items), or raised
extract_grn_data(txt, name) ==
    outcome(extract_metadata(txt, name), extract_items(txt))

-----------------------------------------------------------------------------
(* Documents the processor is run on                                        *)

\* at most this many header lines in a generated page
MaxHeaderSegs == 2

\* at most this many table lines (marker, rows, other lines) in a generated page
MaxTableSegs == 3

RECURSIVE Concat(_)
\* the concatenation of a sequence of texts
Concat(ss) == IF ss = <<>> THEN <<>> ELSE Head(ss) \o Concat(Tail(ss))

RECURSIVE JoinWith(_, _)
\* sep.join(ss)
JoinWith(ss, sep) ==
    IF ss = <<>> THEN <<>>
    ELSE IF Len(ss) = 1 THEN ss[1]
    ELSE ss[1] \o sep \o JoinWith(Tail(ss), sep)

\* all sequences over S of length 0..n
SeqsUpTo(S, n) == UNION {[1..m -> S] : m \in 0..n}

\* lines of the header block of a GRN
HeaderSegs == {
    <<"G","O","O","D","S"," ","R","E","C","E","I","P","T"," ","N","O","T","E"," ","N","o","."," ",":"," ","G","R","N","1","2","3","4","5"," ">>,
    <<"D","a","t","e",":"," ","0","1",".","0","2",".","2","0","2","4","\n">>,
    <<"V","e","n","d","o","r"," ","i","n","v","o","i","c","e"," ","n","o"," ",":"," ","I","N","V","9","9","9","\n">>,
    <<"V","E","N","D","O","R"," ","I","N","V","O","I","C","E"," ","N","O",":">>,
    <<"C","o","n","s","i","g","n","e","e"," ",":"," ","S","t","o","r","e"," ","1","2","\n">>,
    <<"C","o","n","s","i","g","n","e","e",":"," ","X">>,
    <<"C","O","N","S","I","G","N","E","E",":","\n">>,
    <<"P","O"," ","N","u","m","b","e","r"," ",":"," ","P","O","7","7"," ">>,
    <<"P","O"," ","N","u","m","b","e","r",":"," ","4","5"," ","D","a","t","e"," ",":"," ","0","7",".","0","8",".","2","0","2","7","\n">>,
    <<"T","r","u","c","k","/"," ","L","o","r","r","y","/"," ","C","a","r","r","i","e","r"," ","N","o",":"," ","M","H","1","2"," ">>,
    <<"R","e","f",":","D","a","t","e"," ",":"," ","0","5",".","0","6",".","2","0","2","6"," ">>,
    <<" ">> }

\* the header line of the item table
MarkerLine == <<"S"," ","N","o"," ","A","r","t","i","c","l","e","\n">>

\* the same line as another generator prints it
MarkerLineAlt == <<"s"," ","n","o","\n","A","R","T","I","C","L","E","\n">>

\* well-formed rows of the item table, field by field: the description is
\* `words` separated by `gap` (`gap` alone when there is no word), the
\* fields are separated by `fs`, and the row ends with `end`
TableRows == {
    [sno |-> <<"1">>, article |-> <<"1","0","0">>,
     words |-> <<<<"W","i","d","g","e","t">>, <<"B","l","u","e">>>>, gap |-> <<" "," ">>,
     ean |-> <<"1","2","3","4","5","6","7","8","9","0","1","2","3">>, uom |-> <<"P","C","S">>,
     cq |-> <<"1","0">>, rq |-> <<"1","0">>, aq |-> <<"1","0">>, mrp |-> <<"9","9",".","5","0">>,
     fs |-> <<" ">>, end |-> <<"\n">>],
    [sno |-> <<"2">>, article |-> <<"2","0","0">>,
     words |-> <<<<"5">>, <<"k","g">>, <<"R","i","c","e","-","A">>, <<"1","2","3","4","5","6","7","8","9","0","1","2">>>>, gap |-> <<" ">>,
     ean |-> <<"9","8","7","6","5","4","3","2","1","0","9","8","7">>, uom |-> <<"K","G">>,
     cq |-> <<"1">>, rq |-> <<"2">>, aq |-> <<"3">>, mrp |-> <<"5">>,
     fs |-> <<"\n">>, end |-> <<"\n">>],
    [sno |-> <<"1","3">>, article |-> <<"3","0","0","0">>,
     words |-> <<<<"P","a","r","t","#","9">>, <<"5","0","%">>, <<"a",".","b">>>>, gap |-> <<"\n">>,
     ean |-> <<"2","2","2","2","2","2","2","2","2","2","2","2","2">>, uom |-> <<"X","_","1">>,
     cq |-> <<"0">>, rq |-> <<"0">>, aq |-> <<"0">>, mrp |-> <<"0",".","5">>,
     fs |-> <<" ">>, end |-> <<" ">>] }

\* the text of the description cell of a row
DescText(r) == IF r.words = <<>> THEN r.gap ELSE JoinWith(r.words, r.gap)

\* the text of a row
RowText(r) ==
    JoinWith(<<r.sno, r.article, DescText(r), r.ean, r.uom, r.cq, r.rq,
               r.aq, r.mrp>>, r.fs) \o r.end

\* the item record that carries the fields of a row
RowItem(r) ==
    [key \in ItemKeys |->
        CASE key = "S No"             -> r.sno
          [] key = "Article"          -> r.article
          [] key = "Item Description" -> JoinWith(r.words, <<" ">>)
          [] key = "EAN Number"       -> r.ean
          [] key = "UoM"              -> r.uom
          [] key = "Challan Qty"      -> r.cq
          [] key = "Received Qty"     -> r.rq
          [] key = "Accepted Qty"     -> r.aq
          [] key = "MRP"              -> r.mrp]

\* a row without an EAN number: its digit token has 14 digits
RowNoEan == <<"5"," ","5","0","0"," ","T","h","i","n","g"," ","1","2","3","4","5","6","7","8","9","0","1","2","3","4"," ","P","C","S"," ","1"," ","1"," ","1"," ","2",".","5","\n">>

\* a row whose description cell is blank
RowBlankDesc == <<"3"," ","3","0","0"," "," "," ","1","1","1","1","1","1","1","1","1","1","1","1","1"," ","E","A"," ","7"," ","7"," ","7"," ","1",".","0","\n">>

\* lines of the table block of a GRN
TableSegs ==
    {MarkerLine, RowNoEan, RowBlankDesc} \cup {RowText(r) : r \in TableRows}

\* page texts: a header block, a table block, or both
HeaderTexts == {Concat(ss) : ss \in SeqsUpTo(HeaderSegs, MaxHeaderSegs)}

TableTexts == {Concat(ss) : ss \in SeqsUpTo(TableSegs, MaxTableSegs)}

\* a complete one-page GRN
FullText ==
    Concat(<<<<"G","O","O","D","S"," ","R","E","C","E","I","P","T"," ","N","O","T","E"," ","N","o","."," ",":"," ","G","R","N","1","2","3","4","5"," ">>,
             <<"D","a","t","e",":"," ","0","1",".","0","2",".","2","0","2","4","\n">>,
             <<"V","e","n","d","o","r"," ","i","n","v","o","i","c","e"," ","n","o"," ",":"," ","I","N","V","9","9","9","\n">>,
             <<"P","O"," ","N","u","m","b","e","r"," ",":"," ","P","O","7","7"," ">>,
             MarkerLine>>)
      \o Concat([n \in 1..2 |-> RowText(CHOOSE r \in TableRows : r.sno = <<"1">>)])

\* the bytes of a PDF: its page texts when a PDF reader can open it;
\* `empty` is b""
Pdf(pages) == [empty |-> FALSE, readable |-> TRUE, pages |-> pages]

\* bytes that are no PDF, or a PDF whose pages cannot be read
CorruptPdf == [empty |-> FALSE, readable |-> FALSE, pages |-> <<>>]

\* b""
EmptyBytes == [empty |-> TRUE, readable |-> FALSE, pages |-> <<>>]

Documents ==
    {Pdf(<<t>>) : t \in HeaderTexts \cup TableTexts}
        \cup {Pdf(<<FullText>>), Pdf(<<FullText, FullText>>),
              Pdf(<<MarkerLineAlt, FullText>>), Pdf(<<>>),
              CorruptPdf, EmptyBytes}

-----------------------------------------------------------------------------
(* extract_text_from_pdf                                                    *)

\* a variant of extract_text_from_pdf that returns None when fitz raises
extract_text_from_pdf_none(pdf) ==
    IF pdf.readable THEN Concat(pdf.pages) ELSE None

\* the text of all pages, in page order; "" when fitz raises
extract_text_from_pdf(pdf) ==
    IF pdf.readable THEN Concat(pdf.pages) ELSE <<>>

-----------------------------------------------------------------------------
(* Session state                                                            *)

\* None as the value of workflow_mode and of processor.drive_service
NoMode == "None"

NoService == "None"

\* the running script has not called list_drive_files
NotCalled == "not called"

\* pd.DataFrame(rows), and the value None of df_result
DataFrame(rows) == [none |-> FALSE, rows |-> rows]

NoDataFrame == [none |-> TRUE, rows |-> <<>>]

DefaultDaysBack == 30

DefaultMaxFiles == 100

\* the default drive_config
DefaultDriveConfig ==
    [folder_id |-> <<>>, days_back |-> DefaultDaysBack,
     max_files |-> DefaultMaxFiles]

\* "Session State Initialization", and no script run in progress
SessionInit ==
    /\ df_result = NoDataFrame
    /\ file_count = 0
    /\ processing_complete = FALSE
    /\ workflow_mode = NoMode
    /\ drive_config = DefaultDriveConfig
    /\ oauth_token = FALSE
    /\ uploaded_files = <<>>
    /\ drive_files = <<>>
    /\ drive_authenticated = FALSE
    /\ drive_service = NoService
    /\ listed_on = NotCalled
    /\ all_data = <<>>
    /\ processed_count = 0
    /\ total_files = 0
    /\ progress = <<0, 1>>
    /\ calls = <<>>

session_vars == <<workflow_mode, df_result, file_count, processing_complete,
                  drive_config, oauth_token, uploaded_files, drive_files,
                  drive_authenticated, drive_service, listed_on, all_data,
                  processed_count, total_files, progress, calls>>

-----------------------------------------------------------------------------
(* One document through the processor                                      *)

InitExtract ==
    /\ pdf_bytes \in Documents
    /\ source_filename = <<"a",".","p","d","f">>
    /\ text = None
    /\ metadata = None
    /\ items = None
    /\ raised = FALSE
    /\ pc = "pdf"
    /\ SessionInit

\* text = processor.extract_text_from_pdf(pdf_bytes)
ExtractTextFromPdf ==
    /\ pc = "pdf"
    /\ text' = extract_text_from_pdf(pdf_bytes)
    /\ pc' = "text"
    /\ UNCHANGED <<pdf_bytes, source_filename, metadata, items, raised,
                   session_vars>>

\* metadata, items = processor.extract_grn_data(text, name)
ExtractGrnData ==
    /\ pc = "text"
    /\ \E r \in {extract_grn_data(text, source_filename)} :
          /\ raised' = r.raised
          /\ metadata' = r.metadata
          /\ items' = r.items
    /\ pc' = "returned"
    /\ UNCHANGED <<pdf_bytes, text, source_filename, session_vars>>

NextExtract == ExtractTextFromPdf \/ ExtractGrnData

SpecExtract == InitExtract /\ [][NextExtract]_vars

-----------------------------------------------------------------------------
(* clean_text                                                               *)

RECURSIVE replace_rescan(_, _, _)
\* a variant of replace that goes on from the text it has just put in, so
\* that no occurrence of old is left
replace_rescan(s, old, new) ==
    IF Len(s) < Len(old) THEN s
    ELSE IF SubSeq(s, 1, Len(old)) = old
         THEN replace_rescan(new \o SubSeq(s, Len(old) + 1, Len(s)), old, new)
         ELSE <<Head(s)>> \o replace_rescan(Tail(s), old, new)

RECURSIVE replace(_, _, _)
\* str.replace(old, new): the occurrences of old, left to right, not
\* overlapping
replace(s, old, new) ==
    IF Len(s) < Len(old) THEN s
    ELSE IF SubSeq(s, 1, Len(old)) = old
         THEN new \o replace(SubSeq(s, Len(old) + 1, Len(s)), old, new)
         ELSE <<Head(s)>> \o replace(Tail(s), old, new)

\* a variant of clean_text that does not strip the text first
clean_text_unstripped(txt) ==
    replace(replace(replace(txt, <<"\n">>, <<" ">>), <<"\r">>, <<" ">>),
            <<" ", " ">>, <<" ">>)

\* text.strip().replace('\n', ' ').replace('\r', ' ').replace('  ', ' ')
clean_text(txt) ==
    replace(replace(replace(strip(txt), <<"\n">>, <<" ">>),
                    <<"\r">>, <<" ">>),
            <<" ", " ">>, <<" ">>)

\* at most this many characters in a raw text given to clean_text
MaxRawLen == 5

\* raw page texts: words, spaces and line breaks in any arrangement
RawTexts == SeqsUpTo({"a", " ", "\n", "\r"}, MaxRawLen)

InitClean ==
    /\ pdf_bytes \in {Pdf(<<t>>) : t \in RawTexts}
    /\ source_filename = <<"a",".","p","d","f">>
    /\ text = None
    /\ metadata = None
    /\ items = None
    /\ raised = FALSE
    /\ pc = "pdf"
    /\ SessionInit

\* text = processor.clean_text(text)
CleanText ==
    /\ pc = "text"
    /\ text' = clean_text(text)
    /\ pc' = "cleaned"
    /\ UNCHANGED <<pdf_bytes, source_filename, metadata, items, raised,
                   session_vars>>

\* clean_text on a text that is cleaned already
CleanTextAgain ==
    /\ pc = "cleaned"
    /\ text' = clean_text(text)
    /\ pc' = "cleaned twice"
    /\ UNCHANGED <<pdf_bytes, source_filename, metadata, items, raised,
                   session_vars>>

NextClean == ExtractTextFromPdf \/ CleanText \/ CleanTextAgain

SpecClean == InitClean /\ [][NextClean]_vars

-----------------------------------------------------------------------------
(* Google Drive                                                             *)

\* what a script run meets outside the program: whether the cached token
\* still gives valid credentials, the state of st.secrets, whether the URL
\* carries an OAuth code, whether the code buys a token, and whether the
\* Drive listing call succeeds
Env(tv, sec, code, fetch, list) ==
    [token_valid |-> tv, secrets |-> sec, code |-> code, fetch_ok |-> fetch,
     list_ok |-> list]

\* one environment for each way through authentication and listing
Environments ==
    {Env(TRUE, "present", TRUE, TRUE, TRUE),
     Env(TRUE, "present", TRUE, TRUE, FALSE),
     Env(FALSE, "present", TRUE, TRUE, TRUE),
     Env(FALSE, "present", TRUE, FALSE, TRUE),
     Env(FALSE, "present", FALSE, FALSE, TRUE),
     Env(FALSE, "broken", FALSE, FALSE, TRUE),
     Env(FALSE, "missing", FALSE, FALSE, TRUE)}

\* authenticate_from_secrets: the value returned ("stop" for st.stop()),
\* processor.drive_service and whether st.session_state has oauth_token
\* afterwards
authenticate_from_secrets(token, env) ==
    IF token /\ env.token_valid
    THEN [result |-> "True", drive_service |-> "drive", oauth_token |-> token]
    ELSE IF env.secrets = "present"
         THEN IF env.code
              THEN IF env.fetch_ok
                   THEN [result |-> "True", drive_service |-> "drive",
                         oauth_token |-> TRUE]
                   ELSE [result |-> "False", drive_service |-> NoService,
                         oauth_token |-> token]
              ELSE [result |-> "stop", drive_service |-> NoService,
                    oauth_token |-> token]
         ELSE [result |-> "False", drive_service |-> NoService,
               oauth_token |-> token]

\* at most this many PDF files in the Drive folder
MaxListed == 2

\* the PDF files of the Drive folder, newest first
DriveFolder ==
    [n \in 1..MaxListed |->
        [id   |-> <<"d", <<"1", "2", "3", "4", "5">>[n]>>,
         name |-> IF n % 2 = 1 THEN <<"a",".","p","d","f">> ELSE <<"c",".","p","d","f">>,
         data |-> IF n % 2 = 1 THEN Pdf(<<FullText>>) ELSE CorruptPdf]]

\* list_drive_files(folder_id, days_back): [] without a folder id and when
\* the listing raises
list_drive_files(service, folder_id, env) ==
    IF folder_id = <<>> THEN <<>>
    ELSE IF service = NoService \/ ~env.list_ok THEN <<>>
    ELSE DriveFolder

\* a variant of limit_files that keeps the whole listing
limit_files_none(files, max_files) == files

\* drive_files[:max_files] when the listing is longer than max_files
limit_files(files, max_files) ==
    IF Len(files) > max_files THEN SubSeq(files, 1, max_files) ELSE files

\* download_from_drive(file_id): the bytes, b"" when the request raises
download_from_drive(file, ok) == IF ok THEN file.data ELSE EmptyBytes

-----------------------------------------------------------------------------
(* The batch loops                                                          *)

\* at most this many files in the uploader
MaxFiles == 2

\* the files a user has at hand, in the order the uploader lists them
LocalFiles ==
    [n \in 1..MaxFiles |->
        [name |-> IF n % 2 = 1 THEN <<"a",".","p","d","f">> ELSE <<"b",".","p","d","f">>,
         data |-> IF n % 2 = 1 THEN Pdf(<<FullText>>) ELSE CorruptPdf]]

\* what st.file_uploader can return: the first files at hand
UploadLists == {SubSeq(LocalFiles, 1, n) : n \in 0..MaxFiles}

\* the settings a user can enter in the Drive configuration form
DriveConfigs ==
    {DefaultDriveConfig} \cup
    [folder_id : {<<"F">>}, days_back : {DefaultDaysBack},
     max_files : {1, DefaultMaxFiles}]

\* extract_grn_data on the texts of the files above, computed once
ExtractMemo ==
    [d \in {<<extract_text_from_pdf(f.data), f.name>> :
               f \in {LocalFiles[n] : n \in DOMAIN LocalFiles}
                      \cup {DriveFolder[n] : n \in DOMAIN DriveFolder}}
        |-> extract_grn_data(d[1], d[2])]

\* a variant of rows_of that adds no row for a document without items
rows_of_items_only(md, its, extra) ==
    [n \in 1..Len(its) |-> extra @@ its[n] @@ md]

\* the rows one document adds to all_data: the metadata alone when there
\* are no items, else one row per item; `extra` are the columns the
\* workflow adds (file_name, source, drive_file_id)
rows_of(md, its, extra) ==
    IF its = <<>> THEN <<extra @@ md>>
    ELSE [n \in 1..Len(its) |-> extra @@ its[n] @@ md]

\* a variant of progress_after that counts the file only on the next round
progress_after_stale(done, total) == <<done - 1, total>>

\* the value given to progress_bar.progress after a file, as a fraction
progress_after(done, total) == <<done, total>>

\* one entry of `calls`
Visit(file, source, bytes, cs, extracted, md, its, nrows) ==
    [file |-> file, source |-> source, bytes |-> bytes, calls |-> cs,
     extracted |-> extracted, metadata |-> md, items |-> its, rows |-> nrows]

\* the body of the local loops: read, extract, append rows
LocalBody(file, extra) ==
    LET txt == extract_text_from_pdf(file.data)
    IN  \E r \in {ExtractMemo[<<txt, file.name>>]} :
        \E new \in {rows_of(r.metadata, r.items, extra)} :
            /\ pdf_bytes' = file.data
            /\ text' = txt
            /\ source_filename' = file.name
            /\ raised' = r.raised
            /\ metadata' = r.metadata
            /\ items' = r.items
            /\ all_data' = all_data \o new
            /\ calls' = Append(calls,
                   Visit(file, "local", file.data,
                         <<"extract_text_from_pdf", "extract_grn_data">>,
                         TRUE, r.metadata, r.items, Len(new)))

\* the body of the Drive loops: download, then as above when bytes came
DriveBody(file, ok, extra) ==
    LET bytes == download_from_drive(file, ok)
        txt   == extract_text_from_pdf(bytes)
    IN  /\ pdf_bytes' = bytes
        /\ IF ~bytes.empty
           THEN \E r \in {ExtractMemo[<<txt, file.name>>]} :
                \E new \in {rows_of(r.metadata, r.items, extra)} :
                    /\ text' = txt
                    /\ source_filename' = file.name
                    /\ raised' = r.raised
                    /\ metadata' = r.metadata
                    /\ items' = r.items
                    /\ all_data' = all_data \o new
                    /\ calls' = Append(calls,
                           Visit(file, "drive", bytes,
                                 <<"download_from_drive",
                                   "extract_text_from_pdf",
                                   "extract_grn_data">>,
                                 TRUE, r.metadata, r.items, Len(new)))
           ELSE /\ UNCHANGED <<text, source_filename, raised, metadata,
                               items, all_data>>
                /\ calls' = Append(calls,
                       Visit(file, "drive", bytes, <<"download_from_drive">>,
                             FALSE, None, None, 0))

-----------------------------------------------------------------------------
(* The Streamlit script: one action per script run, and one per round of    *)
(* a batch loop                                                             *)

\* the script waits for the user
waiting == pc \in {"idle", "complete"}

\* the names a script run binds before its batch loop starts
run_vars == <<pdf_bytes, text, source_filename, metadata, items, raised,
              all_data, processed_count, total_files, progress, calls>>

FreshRun ==
    /\ pdf_bytes = None
    /\ text = None
    /\ source_filename = None
    /\ metadata = None
    /\ items = None
    /\ raised = FALSE
    /\ all_data = <<>>
    /\ processed_count = 0
    /\ total_files = 0
    /\ progress = <<0, 1>>
    /\ calls = <<>>

\* a script run starts: none of its names is bound yet
StartRun(total) ==
    /\ pdf_bytes' = None
    /\ text' = None
    /\ source_filename' = None
    /\ metadata' = None
    /\ items' = None
    /\ raised' = FALSE
    /\ all_data' = <<>>
    /\ processed_count' = 0
    /\ total_files' = total
    /\ progress' = <<0, 1>>
    /\ calls' = <<>>

InitWorkflow ==
    /\ FreshRun
    /\ pc = "idle"
    /\ df_result = NoDataFrame
    /\ file_count = 0
    /\ processing_complete = FALSE
    /\ workflow_mode = NoMode
    /\ drive_config = DefaultDriveConfig
    /\ oauth_token = FALSE
    /\ uploaded_files = <<>>
    /\ drive_files = <<>>
    /\ drive_authenticated = FALSE
    /\ drive_service = NoService
    /\ listed_on = NotCalled

\* a variant of DriveAccess that lists the folder whatever
\* authenticate_from_secrets returned
DriveAccessUnguarded(mode, cfg, env) ==
    IF mode \in {"drive", "combined"} /\ cfg.folder_id # <<>>
    THEN LET auth == authenticate_from_secrets(oauth_token, env) IN
         [result |-> auth.result,
          drive_service |-> auth.drive_service,
          oauth_token |-> auth.oauth_token,
          listed_on |-> auth.drive_service,
          files |-> limit_files(list_drive_files(auth.drive_service,
                                                 cfg.folder_id, env),
                                cfg.max_files)]
    ELSE [result |-> "False", drive_service |-> NoService,
          oauth_token |-> oauth_token, listed_on |-> NotCalled,
          files |-> <<>>]

\* what the Drive part of a script run in mode `mode` does before any
\* "Process" button is looked at
DriveAccess(mode, cfg, env) ==
    IF mode \in {"drive", "combined"} /\ cfg.folder_id # <<>>
    THEN LET auth == authenticate_from_secrets(oauth_token, env) IN
         [result |-> auth.result,
          drive_service |-> auth.drive_service,
          oauth_token |-> auth.oauth_token,
          listed_on |-> IF auth.result = "True" THEN auth.drive_service
                        ELSE NotCalled,
          files |-> IF auth.result = "True"
                    THEN limit_files(list_drive_files(auth.drive_service,
                                                      cfg.folder_id, env),
                                     cfg.max_files)
                    ELSE <<>>]
    ELSE [result |-> "False", drive_service |-> NoService,
          oauth_token |-> oauth_token, listed_on |-> NotCalled,
          files |-> <<>>]

\* a script run in which no "Process" button is clicked
ViewRun(mode, cfg, ups, env) ==
    LET d == DriveAccess(mode, cfg, env) IN
    /\ file_count' = IF mode = "local" /\ ups # <<>> THEN Len(ups)
                     ELSE file_count
    /\ oauth_token' = d.oauth_token
    /\ drive_authenticated' = (d.result = "True")
    /\ drive_service' = d.drive_service
    /\ listed_on' = d.listed_on
    /\ drive_files' = d.files
    /\ StartRun(0)
    /\ pc' = "idle"

\* one of the three workflow buttons
SelectWorkflow(mode, env) ==
    /\ waiting
    /\ workflow_mode' = mode
    /\ uploaded_files' = IF mode = workflow_mode THEN uploaded_files ELSE <<>>
    /\ ViewRun(mode, drive_config, uploaded_files', env)
    /\ UNCHANGED <<df_result, processing_complete, drive_config>>

\* "Update Drive Settings"
UpdateDriveSettings(cfg, env) ==
    /\ waiting
    /\ workflow_mode \in {"drive", "combined"}
    /\ drive_config' = cfg
    /\ ViewRun(workflow_mode, cfg, uploaded_files, env)
    /\ UNCHANGED <<df_result, processing_complete, workflow_mode,
                   uploaded_files>>

\* the user changes the files in st.file_uploader
UploadFiles(files, env) ==
    /\ waiting
    /\ workflow_mode \in {"local", "combined"}
    /\ files # uploaded_files
    /\ uploaded_files' = files
    /\ ViewRun(workflow_mode, drive_config, files, env)
    /\ UNCHANGED <<df_result, processing_complete, workflow_mode,
                   drive_config>>

\* "Process All PDFs": the loop starts
ProcessLocal ==
    /\ waiting
    /\ workflow_mode = "local"
    /\ uploaded_files # <<>>
    /\ file_count' = Len(uploaded_files)
    /\ StartRun(0)
    /\ pc' = "local"
    /\ UNCHANGED <<df_result, processing_complete, workflow_mode,
                   drive_config, oauth_token, uploaded_files, drive_files,
                   drive_authenticated, drive_service, listed_on>>

\* one round of `for i, file in enumerate(uploaded_files)`
LocalStep ==
    /\ pc = "local"
    /\ processed_count < Len(uploaded_files)
    /\ LET file == uploaded_files[processed_count + 1] IN
          LocalBody(file, "file_name" :> file.name)
    /\ processed_count' = processed_count + 1
    /\ progress' = progress_after(processed_count + 1, Len(uploaded_files))
    /\ UNCHANGED <<pc, total_files, workflow_mode, df_result, file_count,
                   processing_complete, drive_config, oauth_token,
                   uploaded_files, drive_files, drive_authenticated,
                   drive_service, listed_on>>

\* `if all_data:` ... after a loop
Commit ==
    /\ IF all_data # <<>>
       THEN /\ df_result' = DataFrame(all_data)
            /\ processing_complete' = TRUE
       ELSE /\ df_result' = DataFrame(<<>>)
            /\ UNCHANGED processing_complete
    /\ pc' = "complete"
    /\ UNCHANGED <<run_vars, workflow_mode, file_count, drive_config,
                   oauth_token, uploaded_files, drive_files,
                   drive_authenticated, drive_service, listed_on>>

LocalFinish ==
    /\ pc = "local"
    /\ processed_count = Len(uploaded_files)
    /\ Commit

\* "Process Drive PDFs": the loop starts
ProcessDrive(env) ==
    /\ waiting
    /\ workflow_mode = "drive"
    /\ LET d == DriveAccess("drive", drive_config, env) IN
          /\ d.result = "True"
          /\ d.files # <<>>
          /\ oauth_token' = d.oauth_token
          /\ drive_authenticated' = TRUE
          /\ drive_service' = d.drive_service
          /\ listed_on' = d.listed_on
          /\ drive_files' = d.files
    /\ StartRun(0)
    /\ pc' = "drive"
    /\ UNCHANGED <<df_result, file_count, processing_complete,
                   workflow_mode, drive_config, uploaded_files>>

\* one round of `for i, file in enumerate(drive_files)`
DriveStep(ok) ==
    /\ pc = "drive"
    /\ processed_count < Len(drive_files)
    /\ LET file == drive_files[processed_count + 1] IN
          DriveBody(file, ok,
                    ("file_name" :> file.name) @@ ("drive_file_id" :> file.id))
    /\ processed_count' = processed_count + 1
    /\ progress' = progress_after(processed_count + 1, Len(drive_files))
    /\ UNCHANGED <<pc, total_files, workflow_mode, df_result, file_count,
                   processing_complete, drive_config, oauth_token,
                   uploaded_files, drive_files, drive_authenticated,
                   drive_service, listed_on>>

DriveFinish ==
    /\ pc = "drive"
    /\ processed_count = Len(drive_files)
    /\ Commit

\* "Process All Files (Local + Drive)": the loops start
ProcessCombined(env) ==
    /\ waiting
    /\ workflow_mode = "combined"
    /\ LET d == DriveAccess("combined", drive_config, env) IN
          /\ d.result # "stop"
          /\ uploaded_files # <<>> \/ d.files # <<>>
          /\ oauth_token' = d.oauth_token
          /\ drive_authenticated' = (d.result = "True")
          /\ drive_service' = d.drive_service
          /\ listed_on' = d.listed_on
          /\ drive_files' = d.files
          /\ StartRun(Len(uploaded_files) + Len(d.files))
    /\ pc' = "combined"
    /\ UNCHANGED <<df_result, file_count, processing_complete,
                   workflow_mode, drive_config, uploaded_files>>

\* one round of `for file in uploaded_files`
CombinedLocalStep ==
    /\ pc = "combined"
    /\ processed_count < Len(uploaded_files)
    /\ LET file == uploaded_files[processed_count + 1] IN
          LocalBody(file, ("file_name" :> file.name) @@ ("source" :> "local"))
    /\ processed_count' = processed_count + 1
    /\ progress' = progress_after(processed_count + 1, total_files)
    /\ UNCHANGED <<pc, total_files, workflow_mode, df_result, file_count,
                   processing_complete, drive_config, oauth_token,
                   uploaded_files, drive_files, drive_authenticated,
                   drive_service, listed_on>>

\* a variant of CombinedDriveStep that does not wait for the local loop:
\* the next Drive file is taken while local files are still to come
CombinedDriveStepEarly(ok) ==
    /\ pc = "combined"
    /\ drive_files # <<>> /\ drive_authenticated
    /\ \E done \in {Cardinality({n \in DOMAIN calls :
                                     calls[n].source = "drive"})} :
          /\ done < Len(drive_files)
          /\ DriveBody(drive_files[done + 1], ok,
                       ("file_name" :> drive_files[done + 1].name)
                           @@ ("source" :> "drive")
                           @@ ("drive_file_id" :> drive_files[done + 1].id))
    /\ processed_count' = processed_count + 1
    /\ progress' = progress_after(processed_count + 1, total_files)
    /\ UNCHANGED <<pc, total_files, workflow_mode, df_result, file_count,
                   processing_complete, drive_config, oauth_token,
                   uploaded_files, drive_files, drive_authenticated,
                   drive_service, listed_on>>

\* one round of `for file in drive_files`
CombinedDriveStep(ok) ==
    /\ pc = "combined"
    /\ processed_count >= Len(uploaded_files)
    /\ drive_files # <<>> /\ drive_authenticated
    /\ processed_count - Len(uploaded_files) < Len(drive_files)
    /\ LET file == drive_files[processed_count - Len(uploaded_files) + 1] IN
          DriveBody(file, ok,
                    ("file_name" :> file.name) @@ ("source" :> "drive")
                        @@ ("drive_file_id" :> file.id))
    /\ processed_count' = processed_count + 1
    /\ progress' = progress_after(processed_count + 1, total_files)
    /\ UNCHANGED <<pc, total_files, workflow_mode, df_result, file_count,
                   processing_complete, drive_config, oauth_token,
                   uploaded_files, drive_files, drive_authenticated,
                   drive_service, listed_on>>

CombinedFinish ==
    /\ pc = "combined"
    /\ processed_count >= Len(uploaded_files)
    /\ ~(drive_files # <<>> /\ drive_authenticated)
          \/ processed_count - Len(uploaded_files) = Len(drive_files)
    /\ Commit

\* a variant of Reset that also puts drive_config back to its initial value
ResetWithConfig ==
    /\ waiting
    /\ processing_complete
    /\ df_result' = NoDataFrame
    /\ file_count' = 0
    /\ processing_complete' = FALSE
    /\ workflow_mode' = NoMode
    /\ oauth_token' = FALSE
    /\ uploaded_files' = <<>>
    /\ drive_files' = <<>>
    /\ drive_authenticated' = FALSE
    /\ drive_service' = NoService
    /\ listed_on' = NotCalled
    /\ StartRun(0)
    /\ pc' = "idle"
    /\ drive_config' = DefaultDriveConfig

\* "Process New Files"
Reset ==
    /\ waiting
    /\ processing_complete
    /\ df_result' = NoDataFrame
    /\ file_count' = 0
    /\ processing_complete' = FALSE
    /\ workflow_mode' = NoMode
    /\ oauth_token' = FALSE
    /\ uploaded_files' = <<>>
    /\ drive_files' = <<>>
    /\ drive_authenticated' = FALSE
    /\ drive_service' = NoService
    /\ listed_on' = NotCalled
    /\ StartRun(0)
    /\ pc' = "idle"
    /\ UNCHANGED drive_config

\* a round of a batch loop, or the commit after it
BatchStep ==
    \/ LocalStep
    \/ LocalFinish
    \/ \E ok \in BOOLEAN : DriveStep(ok)
    \/ DriveFinish
    \/ CombinedLocalStep
    \/ \E ok \in BOOLEAN : CombinedDriveStep(ok)
    \/ CombinedFinish

NextWorkflow ==
    \/ \E mode \in {"local", "drive", "combined"}, env \in Environments :
          SelectWorkflow(mode, env)
    \/ \E cfg \in DriveConfigs, env \in Environments :
          UpdateDriveSettings(cfg, env)
    \/ \E files \in UploadLists, env \in Environments :
          UploadFiles(files, env)
    \/ ProcessLocal
    \/ \E env \in Environments : ProcessDrive(env)
    \/ \E env \in Environments : ProcessCombined(env)
    \/ Reset
    \/ BatchStep

\* a script run is not suspended for ever between two rounds of its loop
SpecWorkflow == InitWorkflow /\ [][NextWorkflow]_vars /\ WF_vars(BatchStep)

-----------------------------------------------------------------------------
(* Properties of extract_grn_data and extract_text_from_pdf                 *)

returned == pc = "returned" /\ ~raised

\* txt contains the literal s, letter case ignored
Contains(txt, s) == \E i \in 1..Len(txt) : LitAt(txt, i, s, TRUE)

\* the literals the seven header patterns start with
HeaderAnchors == {
    <<"G","O","O","D","S"," ","R","E","C","E","I","P","T"," ","N","O","T","E"," ","N","o",".">>,
    <<"V","e","n","d","o","r"," ","i","n","v","o","i","c","e"," ","n","o">>,
    <<"C","o","n","s","i","g","n","e","e">>,
    <<"P","O"," ","N","u","m","b","e","r">>,
    <<"D","a","t","e">>,
    <<"T","r","u","c","k","/"," ","L","o","r","r","y","/"," ","C","a","r","r","i","e","r"," ","N","o",":">> }

NoAnchors(txt) == \A a \in HeaderAnchors : ~Contains(txt, a)

\* txt contains "S No", whitespace, "Article", letter case ignored
HasMarker(txt) ==
    \E i \in 1..Len(txt) : \E j \in (i + 5)..Len(txt) :
        /\ LitAt(txt, i, <<"S"," ","N","o">>, TRUE)
        /\ \A k \in (i + 4)..(j - 1) : txt[k] \in WhiteSpace
        /\ LitAt(txt, j, <<"A","r","t","i","c","l","e">>, TRUE)

\* sequences of well-formed rows
RowSeqs == SeqsUpTo(TableRows, MaxTableSegs)

RowsText(rs) == Concat([n \in 1..Len(rs) |-> RowText(rs[n])])

RowItems(rs) == [n \in 1..Len(rs) |-> RowItem(rs[n])]

\* C1: in every metadata record extract_grn_data returns, Challan No equals
\* Vendor Invoice No when that is not None, and is None when that is None.
C1_ChallanMirrorsInvoice ==
    returned =>
        /\ metadata["Vendor Invoice No"] # None
              => metadata["Challan No"] = metadata["Vendor Invoice No"]
        /\ metadata["Vendor Invoice No"] = None
              => metadata["Challan No"] = None

C1_Witness ==
    /\ returned
    /\ metadata["Vendor Invoice No"] = <<"I","N","V","9","9","9">>
    /\ metadata["GRN No"] # None

C4_Cases ==
    {[t |-> pre \o MarkerLine \o RowsText(rs), e |-> RowItems(rs)] :
        pre \in {<<>>, MarkerLineAlt}, rs \in RowSeqs}

C5_Cases ==
    {[t |-> RowsText(pre) \o MarkerLine \o RowsText(post),
      e |-> RowItems(post)] : pre \in RowSeqs \ {<<>>}, post \in RowSeqs}
      \cup {[t |-> RowsText(pre), e |-> <<>>] : pre \in RowSeqs}

\* C5: rows before the first table marker yield no item, and a text without
\* a marker yields no item at all.
C5_OnlyAfterMarker ==
    returned =>
        /\ \A c \in C5_Cases : text = c.t => items = c.e
        /\ ~HasMarker(text) => items = <<>>

C5_Witness ==
    /\ returned
    /\ \E r1, r2 \in TableRows :
          /\ text = RowText(r1) \o MarkerLine \o RowText(r2)
          /\ items = <<RowItem(r2)>>

\* C7: when the PDF cannot be read extract_text_from_pdf returns "", and on
\* "" extract_grn_data returns, without raising, a record whose seven
\* extractable fields and Challan No are None, and no items.
C7_UnreadablePdf ==
    /\ pc \in {"text", "returned"} /\ ~pdf_bytes.readable => text = <<>>
    /\ pc = "returned" /\ text = <<>> =>
          /\ ~raised
          /\ \A n \in DOMAIN PatternKeys : metadata[PatternKeys[n]] = None
          /\ metadata["Challan No"] = None
          /\ items = <<>>

C7_Witness ==
    /\ pc = "returned"
    /\ pdf_bytes = CorruptPdf
    /\ text = <<>>
    /\ items = <<>>

\* C10 as stated: every item record has all nine fields, each a non-empty
\* string.
C10_AsStated ==
    returned =>
        \A n \in DOMAIN items :
            /\ DOMAIN items[n] = ItemKeys
            /\ \A key \in ItemKeys : items[n][key] # None /\ items[n][key] # <<>>

-----------------------------------------------------------------------------
(* Properties of the batch loops                                            *)

\* a batch loop is running
running == pc \in {"local", "drive", "combined"}

\* the documents of the batch that is running or has completed, in list order
Batch ==
    CASE workflow_mode = "local" -> uploaded_files
      [] workflow_mode = "drive" -> drive_files
      [] OTHER                   -> uploaded_files \o drive_files

\* the number of rows the documents visited before the n-th added
RECURSIVE RowsBefore(_)
RowsBefore(n) == IF n <= 1 THEN 0 ELSE RowsBefore(n - 1) + calls[n - 1].rows

\* the rows of all_data added for the n-th visited document
RowsFor(n) ==
    SubSeq(all_data, RowsBefore(n) + 1, RowsBefore(n) + calls[n].rows)

\* the rows of a document are one per item, in item order, each with the
\* item's and the document's fields, or one row with the document's fields
\* when there are no items
RowsJoinItems(n) ==
    LET e == calls[n] rows == RowsFor(n) IN
    IF e.items = <<>>
    THEN /\ Len(rows) = 1
         /\ \A key \in MetaKeys : rows[1][key] = e.metadata[key]
         /\ \A key \in ItemKeys : key \notin DOMAIN rows[1]
    ELSE /\ Len(rows) = Len(e.items)
         /\ \A j \in DOMAIN rows :
               /\ \A key \in ItemKeys : rows[j][key] = e.items[j][key]
               /\ \A key \in MetaKeys : rows[j][key] = e.metadata[key]

\* C3 as stated: for every document a workflow extracts, clean_text is
\* called after extract_text_from_pdf and before extract_grn_data.
C3_AsStated ==
    \A n \in DOMAIN calls :
        calls[n].extracted =>
            \E i, j, k \in DOMAIN calls[n].calls :
                /\ i < j /\ j < k
                /\ calls[n].calls[i] = "extract_text_from_pdf"
                /\ calls[n].calls[j] = "clean_text"
                /\ calls[n].calls[k] = "extract_grn_data"

\* C8 as stated: every extracted document adds one row per item, or one
\* row of metadata when it has no items, and so every document of the batch
\* adds at least one row.
C8_AsStated ==
    /\ Len(all_data) = RowsBefore(Len(calls) + 1)
    /\ \A n \in DOMAIN calls :
          /\ calls[n].extracted => RowsJoinItems(n)
          /\ calls[n].rows >= 1

\* C8 as amended: every extracted document adds one row per item, in item
\* order, each with the document's metadata, or one row of metadata when it
\* has no items; a Drive document whose download fails is not extracted and
\* adds no row.
C8_RowsPerExtractedDocument ==
    /\ Len(all_data) = RowsBefore(Len(calls) + 1)
    /\ \A n \in DOMAIN calls :
          /\ calls[n].extracted => RowsJoinItems(n) /\ calls[n].rows >= 1
          /\ ~calls[n].extracted =>
                calls[n].source = "drive" /\ calls[n].rows = 0

C8_Witness ==
    /\ pc = "complete"
    /\ \E l, m, n \in DOMAIN calls :
          /\ calls[l].extracted /\ calls[l].rows = 2
          /\ calls[m].extracted /\ calls[m].items = <<>>
          /\ ~calls[n].extracted
    /\ Len(all_data) = 3

\* when a batch has completed, its documents have been visited once each in
\* list order, every document whose bytes were obtained has been extracted,
\* and the progress bar stands at 1
C9_AtCompletion ==
    pc = "complete" =>
        /\ Len(calls) = Len(Batch)
        /\ \A n \in DOMAIN calls :
              /\ calls[n].file = Batch[n]
              /\ calls[n].extracted = ~calls[n].bytes.empty
        /\ progress[1] = progress[2] /\ progress[2] > 0

\* C9: an unreadable PDF or a failed download does not abort the batch:
\* every document is visited once in list order, the documents after the
\* failing one are extracted, and the run reaches its completion step with
\* progress 1.
C9_BatchCompletes ==
    /\ []C9_AtCompletion
    /\ running ~> pc = "complete"

C9_Witness ==
    /\ pc = "complete"
    /\ \E i, j, k \in DOMAIN calls :
          /\ i < j /\ j < k
          /\ calls[i].bytes = CorruptPdf /\ calls[i].extracted
          /\ calls[j].bytes = EmptyBytes /\ ~calls[j].extracted
          /\ calls[k].extracted
    /\ progress[1] = Len(Batch)

-----------------------------------------------------------------------------
(* Properties of the header patterns                                        *)

\* C11 as stated: when the text has a date after "PO Number ... Date:", PO
\* Date is that date, wherever a standalone "Date:" date stands; the
\* standalone alternative gives PO Date only when the first alternative
\* matches nowhere in the text.
C11_AsStated ==
    returned =>
        LET first  == re_search(<<patterns("PO Date")[1]>>, text, TRUE)
            second == re_search(<<patterns("PO Date")[2]>>, text, TRUE)
        IN  /\ first.ok => metadata["PO Date"] = group(text, first, 1)
            /\ ~first.ok /\ second.ok
                  => metadata["PO Date"] = group(text, second, 2)
            /\ ~first.ok /\ ~second.ok => metadata["PO Date"] = None

\* the orders in which the claims below take the seven patterns: the order
\* of the dict, its reverse, and the dict order with the two date patterns
\* exchanged
KeyOrders ==
    {PatternKeys,
     [n \in DOMAIN PatternKeys |-> PatternKeys[Len(PatternKeys) + 1 - n]],
     [n \in DOMAIN PatternKeys |->
         CASE PatternKeys[n] = "GRN Date" -> "PO Date"
           [] PatternKeys[n] = "PO Date"  -> "GRN Date"
           [] OTHER                       -> PatternKeys[n]]}

\* txt has "Date" at two places or more, letter case ignored
SeveralDates(txt) ==
    \E i, j \in 1..Len(txt) :
        /\ i < j
        /\ LitAt(txt, i, <<"D","a","t","e">>, TRUE)
        /\ LitAt(txt, j, <<"D","a","t","e">>, TRUE)

\* C12 as stated: for a text with several "Date:" occurrences the record
\* depends on the order of the header patterns: taking them in another
\* order gives a metadata record different from the one returned.
C12_AsStated ==
    returned /\ SeveralDates(text) =>
        \E keys \in KeyOrders :
            metadata_in_order(keys, text, source_filename) # metadata

\* C12 as amended: GRN Date and PO Date are each set from their own pattern
\* alone, so the metadata record extract_grn_data returns is the one the
\* loop gives in every order of the header patterns, also for a text with
\* several "Date:" occurrences.
C12_OrderIndependent ==
    returned =>
        \A keys \in KeyOrders :
            metadata_in_order(keys, text, source_filename) = metadata

C12_Witness ==
    /\ returned
    /\ SeveralDates(text)
    /\ metadata["GRN Date"] # None
    /\ metadata["PO Date"] # None
    /\ metadata["GRN Date"] # metadata["PO Date"]

\* the position of the colon of the first "Consignee", whitespace, ":" of
\* txt, letter case ignored; 0 when txt has none
ConsigneeColon(txt) ==
    LET cs == {c \in 1..Len(txt) :
                 /\ txt[c] = ":"
                 /\ \E i \in 1..(c - 9) :
                       /\ LitAt(txt, i, <<"C","o","n","s","i","g","n","e","e">>, TRUE)
                       /\ \A k \in (i + 9)..(c - 1) : txt[k] \in WhiteSpace}
    IN  IF cs = {} THEN 0 ELSE Min(cs)

-----------------------------------------------------------------------------
(* Properties of the item pattern                                           *)

\* s stands in txt as a whole token: whitespace right before and right
\* after it
IsToken(txt, s) ==
    \E i \in 2..(Len(txt) - Len(s)) :
        /\ SubSeq(txt, i, i + Len(s) - 1) = s
        /\ txt[i - 1] \in WhiteSpace
        /\ txt[i + Len(s)] \in WhiteSpace

\* w is a run of digits shorter than an EAN number
ShortDigits(w) ==
    /\ w # <<>>
    /\ Len(w) < EanLen
    /\ \A n \in DOMAIN w : w[n] \in Digits

\* w is one of the words of the description d, which are separated by " "
IsWordOf(d, w) ==
    \E i \in 1..(Len(d) - Len(w) + 1) :
        /\ SubSeq(d, i, i + Len(w) - 1) = w
        /\ i = 1 \/ d[i - 1] = " "
        /\ i + Len(w) > Len(d) \/ d[i + Len(w)] = " "

\* C14: the EAN Number of every item record is 13 digits that stand in the
\* text as a whole whitespace-delimited token; and in a table of
\* well-formed rows a digit run shorter than 13 digits in a row's
\* description stays in the Item Description of the row's item, whose EAN
\* Number is the row's 13-digit token.
C14_EanIsWholeToken ==
    returned =>
        /\ \A n \in DOMAIN items :
              /\ Len(items[n]["EAN Number"]) = EanLen
              /\ \A k \in 1..EanLen : items[n]["EAN Number"][k] \in Digits
              /\ IsToken(text, items[n]["EAN Number"])
        /\ \A pre \in {<<>>, MarkerLineAlt} : \A rs \in RowSeqs :
              text = pre \o MarkerLine \o RowsText(rs) =>
                  /\ Len(items) = Len(rs)
                  /\ \A n \in DOMAIN rs : \A k \in DOMAIN rs[n].words :
                        ShortDigits(rs[n].words[k]) =>
                            /\ items[n]["EAN Number"] = rs[n].ean
                            /\ IsWordOf(items[n]["Item Description"],
                                        rs[n].words[k])

C14_Witness ==
    /\ returned
    /\ Len(items) = 2
    /\ \E r \in TableRows :
          /\ \E k \in DOMAIN r.words : Len(r.words[k]) = EanLen - 1
                                          /\ ShortDigits(r.words[k])
          /\ text = MarkerLine \o RowText(r) \o RowText(r)
          /\ items[2]["EAN Number"] = r.ean

\* C15: the Item Description of every item record neither starts nor ends
\* with whitespace, and its only whitespace is single spaces (no newline,
\* no two whitespace characters in a row); in a table of well-formed rows
\* it is the words of the row's description joined by one space each.
C15_DescriptionCollapsed ==
    returned =>
        /\ \A n \in DOMAIN items :
              LET d == items[n]["Item Description"] IN
              /\ d # <<>> => d[1] \notin WhiteSpace /\ d[Len(d)] \notin WhiteSpace
              /\ \A k \in DOMAIN d : d[k] \in WhiteSpace => d[k] = " "
              /\ \A k \in 1..(Len(d) - 1) :
                    ~(d[k] \in WhiteSpace /\ d[k + 1] \in WhiteSpace)
        /\ \A pre \in {<<>>, MarkerLineAlt} : \A rs \in RowSeqs :
              text = pre \o MarkerLine \o RowsText(rs) =>
                  /\ Len(items) = Len(rs)
                  /\ \A n \in DOMAIN rs :
                        items[n]["Item Description"]
                            = JoinWith(rs[n].words, <<" ">>)

C15_Witness ==
    /\ returned
    /\ Len(items) = 2
    /\ \E r1, r2 \in TableRows :
          /\ r1.gap = <<" ", " ">>
          /\ r2.gap = <<"\n">>
          /\ text = MarkerLine \o RowText(r1) \o RowText(r2)
          /\ items[1]["Item Description"] = JoinWith(r1.words, <<" ">>)
          /\ items[2]["Item Description"] = JoinWith(r2.words, <<" ">>)

-----------------------------------------------------------------------------
(* Properties of clean_text                                                 *)

\* the raw text clean_text was given
raw == extract_text_from_pdf(pdf_bytes)

cleaned == pc \in {"cleaned", "cleaned twice"}

\* C16: what clean_text returns is a string, maybe empty, without newline
\* and carriage return, that neither starts nor ends with whitespace.
C16_CleanTextShape ==
    cleaned =>
        /\ text \in Seq({"a", " ", "\n", "\r"})
        /\ \A n \in DOMAIN text : text[n] \notin {"\n", "\r"}
        /\ text # <<>> =>
              text[1] \notin WhiteSpace /\ text[Len(text)] \notin WhiteSpace

C16_Witness ==
    /\ pc = "cleaned"
    /\ Len(raw) = MaxRawLen
    /\ raw[1] \in WhiteSpace
    /\ raw[Len(raw)] \in WhiteSpace
    /\ \E n \in 2..(Len(raw) - 1) :
          raw[n] = "\n" /\ raw[n - 1] = "a" /\ raw[n + 1] = "a"
    /\ Len(text) = 3

\* s with every line break turned into a space
Spaced(s) == [n \in DOMAIN s |-> IF s[n] \in {"\n", "\r"} THEN " " ELSE s[n]]

\* the number of spaces s starts with
LeadingSpaces(s) ==
    Max({k \in 0..Len(s) : \A n \in 1..k : s[n] = " "})

RECURSIVE HalveRuns(_)
\* s with every maximal run of k spaces cut to a run of k/2 spaces, rounded
\* up
HalveRuns(s) ==
    IF s = <<>> THEN <<>>
    ELSE IF Head(s) = " "
         THEN [n \in 1..((LeadingSpaces(s) + 1) \div 2) |-> " "]
                  \o HalveRuns(SubSeq(s, LeadingSpaces(s) + 1, Len(s)))
         ELSE <<Head(s)>> \o HalveRuns(Tail(s))

\* s has k spaces in a row
HasSpaces(s, k) ==
    \E i \in 1..(Len(s) - k + 1) : \A n \in i..(i + k - 1) : s[n] = " "

\* C17: clean_text collapses double spaces in one pass from left to right,
\* after the line breaks became spaces: every run of k spaces of the
\* stripped text, line breaks counted as spaces, is left as a run of k/2
\* spaces, rounded up.  So the result has a double space exactly when there
\* was a run of three or more, and clean_text on the result halves the
\* runs once more.
C17_SinglePassCollapse ==
    /\ pc = "cleaned" =>
          /\ text = HalveRuns(Spaced(strip(raw)))
          /\ HasSpaces(text, 2) <=> HasSpaces(Spaced(strip(raw)), 3)
    /\ pc = "cleaned twice" =>
          /\ text = HalveRuns(HalveRuns(Spaced(strip(raw))))
          /\ text # HalveRuns(Spaced(strip(raw)))
                <=> HasSpaces(Spaced(strip(raw)), 3)

C17_Witness ==
    /\ pc = "cleaned twice"
    /\ raw = <<"a", " ", "\n", " ", "a">>
    /\ text = <<"a", " ", "a">>
    /\ HalveRuns(Spaced(strip(raw))) = <<"a", " ", " ", "a">>

-----------------------------------------------------------------------------
(* Properties of the workflows                                              *)

\* a combined run is in its loops or has completed
combined_run == workflow_mode = "combined" /\ pc \in {"combined", "complete"}

\* C18: a combined run visits the uploaded files in list order and then the
\* Drive files in list order; the rows of a local file carry source
\* "local" and no drive_file_id, the rows of a Drive file carry source
\* "drive" and the file's id; no Drive row stands before a local row in
\* all_data, which is the result table when the run has completed.
C18_LocalBeforeDrive ==
    combined_run =>
        /\ Len(all_data) = RowsBefore(Len(calls) + 1)
        /\ \A n \in DOMAIN calls :
              /\ n <= Len(uploaded_files) =>
                    /\ calls[n].source = "local"
                    /\ calls[n].file = uploaded_files[n]
              /\ n > Len(uploaded_files) =>
                    /\ calls[n].source = "drive"
                    /\ n - Len(uploaded_files) <= Len(drive_files)
                    /\ calls[n].file = drive_files[n - Len(uploaded_files)]
              /\ \A j \in DOMAIN RowsFor(n) :
                    /\ {"source", "file_name"} \subseteq DOMAIN RowsFor(n)[j]
                    /\ RowsFor(n)[j]["source"] = calls[n].source
                    /\ RowsFor(n)[j]["file_name"] = calls[n].file.name
                    /\ IF calls[n].source = "drive"
                       THEN /\ "drive_file_id" \in DOMAIN RowsFor(n)[j]
                            /\ RowsFor(n)[j]["drive_file_id"] = calls[n].file.id
                       ELSE "drive_file_id" \notin DOMAIN RowsFor(n)[j]
        /\ \A i, j \in DOMAIN all_data :
              i < j /\ all_data[i]["source"] = "drive"
                  => all_data[j]["source"] = "drive"
        /\ pc = "complete" /\ all_data # <<>>
              => df_result = DataFrame(all_data)

C18_Witness ==
    /\ combined_run
    /\ pc = "complete"
    /\ Len(uploaded_files) = 2
    /\ Len(drive_files) = 2
    /\ \A n \in DOMAIN calls : calls[n].extracted
    /\ df_result.rows[1]["source"] = "local"
    /\ df_result.rows[Len(df_result.rows)]["source"] = "drive"
    /\ df_result.rows[Len(df_result.rows)]["drive_file_id"] = drive_files[2].id

\* the visits of the running or completed batch that went to a Drive file
DriveVisits == {n \in DOMAIN calls : calls[n].source = "drive"}

\* the first max_files files of the folder's listing, all of it when it has
\* no more than max_files
KeptFiles ==
    {DriveFolder[k] : k \in {k \in DOMAIN DriveFolder :
                                k <= drive_config.max_files}}

\* C19: a run of the drive or the combined workflow downloads at most
\* max_files Drive files; the files it downloads are among the first
\* max_files of the listing, each one once and in listing order, and when the
\* listing has more than max_files the run's Drive files are exactly its
\* first max_files.
C19_AtMostMaxFiles ==
    pc \in {"drive", "combined", "complete"} =>
        /\ Cardinality(DriveVisits) <= drive_config.max_files
        /\ \A n \in DriveVisits : calls[n].file \in KeptFiles
        /\ \A n, m \in DriveVisits :
              n < m => \E k, l \in DOMAIN DriveFolder :
                          /\ k < l
                          /\ calls[n].file = DriveFolder[k]
                          /\ calls[m].file = DriveFolder[l]
        /\ drive_files # <<>> /\ Len(DriveFolder) > drive_config.max_files
              => drive_files = SubSeq(DriveFolder, 1, drive_config.max_files)

\* a drive or combined run has completed on a folder with more than
\* max_files files
C19_Witness ==
    /\ pc = "complete"
    /\ workflow_mode \in {"drive", "combined"}
    /\ Len(DriveFolder) > drive_config.max_files
    /\ Cardinality(DriveVisits) = drive_config.max_files
    /\ \A n \in DriveVisits : calls[n].extracted

\* C20: whenever processing_complete is true, df_result is a table with at
\* least one row, the rows of the most recent run; a run that has completed
\* without a row does not stand with processing_complete true.
C20_AsStated ==
    /\ processing_complete =>
          /\ ~df_result.none
          /\ df_result.rows # <<>>
          /\ pc = "complete" => df_result.rows = all_data
    /\ pc = "complete" /\ all_data = <<>> => ~processing_complete

\* the visits of the running or completed batch that called
\* download_from_drive
Downloads ==
    {n \in DOMAIN calls :
        \E c \in DOMAIN calls[n].calls :
            calls[n].calls[c] = "download_from_drive"}

\* C21: authenticate_from_secrets has returned True exactly when the
\* processor's drive_service is set; list_drive_files is called only in the
\* drive and combined workflows, in a script run where authentication
\* returned True, on the service that authentication set; a Drive listing is
\* held and download_from_drive is called only in such a run.
C21_ServiceSetBeforeUse ==
    /\ drive_authenticated <=> drive_service # NoService
    /\ listed_on # NotCalled =>
          /\ workflow_mode \in {"drive", "combined"}
          /\ drive_authenticated
          /\ listed_on # NoService
          /\ listed_on = drive_service
    /\ drive_files # <<>> => listed_on # NotCalled
    /\ Downloads # {} =>
          /\ workflow_mode \in {"drive", "combined"}
          /\ drive_authenticated
          /\ drive_service # NoService
    /\ Downloads = DriveVisits

\* a combined run has listed the folder and downloaded from it after an
\* authentication that returned True
C21_Witness ==
    /\ pc = "complete"
    /\ workflow_mode = "combined"
    /\ drive_authenticated
    /\ listed_on = drive_service
    /\ drive_service # NoService
    /\ Downloads # {}

\* a combined run whose authentication did not return True has completed on
\* the local files alone
C21_NotAuthenticated ==
    /\ pc = "complete"
    /\ workflow_mode = "combined"
    /\ drive_config.folder_id # <<>>
    /\ ~drive_authenticated
    /\ listed_on = NotCalled
    /\ calls # <<>>

\* a step that clears processing_complete or takes workflow_mode back to None
reset_step ==
    \/ processing_complete /\ ~processing_complete'
    \/ workflow_mode # NoMode /\ workflow_mode' = NoMode

\* C22: the reset happens only while processing_complete is true; it leaves
\* df_result None, file_count 0, processing_complete False, workflow_mode
\* None and no oauth_token in the session state, and drive_config as it was.
C22_ResetEffect ==
    [][reset_step =>
          /\ processing_complete
          /\ df_result'.none
          /\ file_count' = 0
          /\ ~processing_complete'
          /\ workflow_mode' = NoMode
          /\ ~oauth_token'
          /\ drive_config' = drive_config]_<<processing_complete, workflow_mode>>

\* the state after a reset of a session that had Drive settings, a token and
\* results: only a reset takes workflow_mode back to None
C22_Witness ==
    /\ workflow_mode = NoMode
    /\ drive_config.folder_id # <<>>
    /\ drive_config.max_files = 1
    /\ df_result.none
    /\ file_count = 0
    /\ ~processing_complete
    /\ ~oauth_token

-----------------------------------------------------------------------------
(* Properties of the item records across rows                               *)

\* the literal s stands in txt at position i
OccursAt(txt, i, s) ==
    /\ i + Len(s) - 1 <= Len(txt)
    /\ SubSeq(txt, i, i + Len(s) - 1) = s

\* the row RowNoEan, which has no 13-digit EAN, stands in txt with the
\* well-formed row r on a later line
MalformedThenRow(txt, r) ==
    \E i \in 1..Len(txt) :
        /\ OccursAt(txt, i, RowNoEan)
        /\ \E j \in (i + Len(RowNoEan))..Len(txt) : OccursAt(txt, j, RowText(r))

\* the item has the S No and Article of RowNoEan
FromRowNoEan(item) ==
    /\ item["S No"] = <<"5">>
    /\ item["Article"] = <<"5","0","0">>

\* C23: no item record combines the S No and Article of a malformed row
\* with the EAN Number, UoM, quantities and MRP of a later row.
C23_AsStated ==
    returned =>
        \A n \in DOMAIN items : \A r \in TableRows :
            MalformedThenRow(text, r) =>
                ~ /\ FromRowNoEan(items[n])
                  /\ items[n]["EAN Number"] = r.ean
                  /\ items[n]["UoM"] = r.uom
                  /\ items[n]["Challan Qty"] = r.cq
                  /\ items[n]["Received Qty"] = r.rq
                  /\ items[n]["Accepted Qty"] = r.aq
                  /\ items[n]["MRP"] = r.mrp

=============================================================================
